---- MODULE Spec2Model ----
(***************************************************************************)
(* pico-serprog (src/main.c): the serprog command loop, its handlers, the  *)
(* SPI bus controller state (spi_enabled, cs_pin, baud), the chip-select   *)
(* and SPI pins, and the byte streams exchanged with the host and with the *)
(* SPI peripheral.                                                         *)
(*                                                                         *)
(* Bulk data bytes are named by their position in their stream: host data  *)
(* byte k of a command is the k-th byte the host sends after the command's *)
(* length bytes, peripheral byte k is the k-th byte clocked in during the  *)
(* command.  A run of such bytes is an interval <<lo, hi>> (lo inclusive,  *)
(* hi exclusive), so a stream is a sequence of intervals and it is in      *)
(* order with nothing lost or repeated exactly when it is one interval     *)
(* starting at 0.                                                          *)
(*                                                                         *)
(* A blocking transport call (readbyte_blocking, readbytes_blocking,       *)
(* sendbyte_blocking, sendbytes_blocking) that returns has moved exactly   *)
(* the bytes it was asked for, and is one step here; so is a call into the *)
(* SPI driver.  command_loop is a position (pc) walking through the switch *)
(* and, inside s_cmd_o_spiop, through each turn of its two loops.          *)
(***************************************************************************)
EXTENDS Integers, Sequences, FiniteSets

(* ------------------------------------------------------------------ *)
(* Program constants: src/main.c                                       *)
(* ------------------------------------------------------------------ *)
SPI_CS_0 ==
  5
SPI_MISO ==
  4
SPI_MOSI ==
  3
SPI_SCK ==
  2
NUM_CS_AVAILABLE ==
  4
DefaultBaud ==
  12000000
BufSize ==
  4096

(* ------------------------------------------------------------------ *)
(* Protocol constants of serprog.h (the standard serprog byte values)  *)
(* ------------------------------------------------------------------ *)
S_ACK ==
  6
S_NAK ==
  21
S_CMD_NOP ==
  0
S_CMD_Q_IFACE ==
  1
S_CMD_Q_CMDMAP ==
  2
S_CMD_Q_PGMNAME ==
  3
S_CMD_Q_SERBUF ==
  4
S_CMD_Q_BUSTYPE ==
  5
S_CMD_SYNCNOP ==
  16
S_CMD_S_BUSTYPE ==
  18
S_CMD_O_SPIOP ==
  19
S_CMD_S_SPI_FREQ ==
  20
S_CMD_S_PIN_STATE ==
  21
S_CMD_S_SPI_CS ==
  22

(* ------------------------------------------------------------------ *)
(* Bounds: what the host sends and what the stack holds                *)
(* ------------------------------------------------------------------ *)
\* largest value tried for the byte of wlen / rlen that no read fills
MaxTop ==
  1

\* the longest transfer looked at on its own, and the capacity of the CDC
\* FIFO it goes through, in bytes
MaxXfer ==
  4

FifoSize ==
  2

\* command bytes the host sends: every handled command, an unimplemented
\* serprog command (0x06, S_CMD_Q_CHIPSIZE) and a byte outside the protocol
CmdInputs ==
  { S_CMD_NOP, S_CMD_Q_IFACE, S_CMD_Q_CMDMAP, S_CMD_Q_PGMNAME, S_CMD_Q_SERBUF,
    S_CMD_Q_BUSTYPE, S_CMD_SYNCNOP, S_CMD_S_BUSTYPE, S_CMD_O_SPIOP,
    S_CMD_S_SPI_FREQ, S_CMD_S_PIN_STATE, S_CMD_S_SPI_CS, 6, 255 }

\* bus-type masks: none, SPI only, everything but SPI, everything
BusMaskInputs ==
  { 0, 8, 247, 255 }

\* set-pin-state bytes
PinStateInputs ==
  { 0, 1, 255 }

\* chip-select index bytes: in range (0, 1, 3) and out of range (4, 255)
CsInputs ==
  { 0, 1, 3, 4, 255 }

\* requested frequencies, as the four bytes on the wire: 0 and 0x01020304
FreqInputs ==
  { <<0, 0, 0, 0>>, <<4, 3, 2, 1>> }

\* the six length bytes of an SPI operation (w0,w1,w2,r0,r1,r2): lengths
\* 0/0, 3/3, 4096/4097, 4097/4096 and 65536/65537
LenInputs ==
  { <<0, 0, 0, 0, 0, 0>>, <<3, 0, 0, 3, 0, 0>>, <<0, 16, 0, 1, 16, 0>>,
    <<1, 16, 0, 0, 16, 0>>, <<0, 0, 1, 1, 0, 1>> }

\* what the unwritten top bytes of wlen and rlen hold when the handler runs
StackGarbage ==
  { p \in (0..MaxTop) \X (0..MaxTop) : p[1] + p[2] <= MaxTop }

(* ------------------------------------------------------------------ *)
(* Helpers                                                             *)
(* ------------------------------------------------------------------ *)
MIN(a, b) ==
  IF a < b THEN a ELSE b

\* the value of a little-endian uint32 whose low Len(bytes) bytes are bytes
\* and whose remaining bytes hold `rest` (as a number of that many bytes)
LoadLE(bytes, rest) ==
  LET RECURSIVE val(_)
      val(i) == IF i > Len(bytes) THEN rest ELSE bytes[i] + 256 * val(i + 1)
  IN val(1)

\* the four bytes of a uint32 in memory order (little-endian)
StoreLE32(n) ==
  [i \in 1..4 |-> (n \div (256 ^ (i - 1))) % 256]

CsPins ==
  SPI_CS_0 .. (SPI_CS_0 + NUM_CS_AVAILABLE - 1)

Pins ==
  CsPins \cup { SPI_MISO, SPI_MOSI, SPI_SCK }

\* a pin after chip reset: no function, input, pulled down, 4 mA
ResetPin ==
  [func |-> "null", dir |-> "in", out |-> 0, pu |-> FALSE, pd |-> TRUE, drive |-> 4]

(* ------------------------------------------------------------------ *)
(* GPIO: a pin is a record; gpio maps each pin to its record           *)
(* ------------------------------------------------------------------ *)
\* gpio_init(pin): SIO function, input, output latch cleared
gpio_init(g, pin) ==
  [g EXCEPT ![pin].func = "sio", ![pin].dir = "in", ![pin].out = 0]

use_cs(g, pin) ==
  [g EXCEPT ![pin].out = 1, ![pin].dir = "out", ![pin].drive = 12]

pullup_cs(g, pin) ==
  [g EXCEPT ![pin].dir = "in", ![pin].pu = TRUE, ![pin].pd = FALSE]

\* mutant of disable_pin: the pulls left as they were
disable_pin_keeps_pulls(g, pin) ==
  gpio_init(g, pin)

disable_pin(g, pin) ==
  LET g1 == gpio_init(g, pin)
  IN [g1 EXCEPT ![pin].pu = FALSE, ![pin].pd = FALSE]

\* gpio_set_function(pin, GPIO_FUNC_SPI); gpio_set_drive_strength(pin, 12MA)
spi_pin(g, pin) ==
  [g EXCEPT ![pin].func = "spi", ![pin].drive = 12]

\* the pins of enable_spi: the loop over SPI_CS_0+1 .. SPI_CS_0+NUM_CS_AVAILABLE-1,
\* then the pin at cs_pin, then the three SPI signal pins
RECURSIVE enable_cs_loop(_, _)
enable_cs_loop(g, i) ==
  IF i < SPI_CS_0 + NUM_CS_AVAILABLE
  THEN enable_cs_loop(pullup_cs(gpio_init(g, i), i), i + 1)
  ELSE g

\* mutant of enable_spi_pins: the loop over the other chip-selects starts
\* one pin too far
enable_spi_pins_skip(g, cs) ==
  LET g1 == enable_cs_loop(g, SPI_CS_0 + 2)
      g2 == use_cs(gpio_init(g1, cs), cs)
  IN spi_pin(spi_pin(spi_pin(g2, SPI_MISO), SPI_MOSI), SPI_SCK)

enable_spi_pins(g, cs) ==
  LET g1 == enable_cs_loop(g, SPI_CS_0 + 1)
      g2 == use_cs(gpio_init(g1, cs), cs)
  IN spi_pin(spi_pin(spi_pin(g2, SPI_MISO), SPI_MOSI), SPI_SCK)

\* the pins of disable_spi: every chip-select pin, then MISO, MOSI, SCK
RECURSIVE disable_cs_loop(_, _)
disable_cs_loop(g, i) ==
  IF i < NUM_CS_AVAILABLE
  THEN disable_cs_loop(disable_pin(g, SPI_CS_0 + i), i + 1)
  ELSE g

disable_spi_pins(g) ==
  disable_pin(disable_pin(disable_pin(disable_cs_loop(g, 0), SPI_MISO), SPI_MOSI), SPI_SCK)

\* cs_select / cs_deselect: gpio_put(cs_pin, level)
cs_select(g, pin) ==
  [g EXCEPT ![pin].out = 0]

\* mutant of cs_deselect: the level never put back
cs_deselect_noop(g, pin) ==
  g

cs_deselect(g, pin) ==
  [g EXCEPT ![pin].out = 1]

(* ------------------------------------------------------------------ *)
(* Transport: what a blocking send appends to the output stream.  An   *)
(* element of a stream is a byte <<"b", value>> or a run of bulk data  *)
(* <<"dat", lo, hi>>.                                                  *)
(* ------------------------------------------------------------------ *)
\* sendbyte_blocking(b): the byte b appended to the output stream t
sendbyte_blocking(t, b) ==
  Append(t, <<"b", b>>)

\* sendbytes_blocking of a byte array
RECURSIVE sendbytes_blocking(_, _)
sendbytes_blocking(t, bytes) ==
  IF bytes = <<>> THEN t
  ELSE sendbytes_blocking(sendbyte_blocking(t, Head(bytes)), Tail(bytes))

\* a run <<lo, hi>> of stream positions appended to a stream of runs
AppendRun(s, lo, hi) ==
  IF lo = hi THEN s
  ELSE IF s # <<>> /\ s[Len(s)][1] = "dat" /\ s[Len(s)][3] = lo
       THEN [s EXCEPT ![Len(s)] = <<"dat", s[Len(s)][2], hi>>]
       ELSE Append(s, <<"dat", lo, hi>>)

(* ------------------------------------------------------------------ *)
(* Capability table                                                    *)
(* ------------------------------------------------------------------ *)
progname ==
  <<112, 105, 99, 111, 45, 115, 101, 114, 112, 114, 111, 103, 0, 0, 0, 0>>

\* mutant of cmdmap: the bit of S_CMD_S_SPI_CS left out
cmdmap_no_cs ==
  << 2^S_CMD_NOP + 2^S_CMD_Q_IFACE + 2^S_CMD_Q_CMDMAP + 2^S_CMD_Q_PGMNAME
     + 2^S_CMD_Q_SERBUF + 2^S_CMD_Q_BUSTYPE + 2^S_CMD_SYNCNOP + 2^S_CMD_O_SPIOP
     + 2^S_CMD_S_BUSTYPE + 2^S_CMD_S_SPI_FREQ + 2^S_CMD_S_PIN_STATE,
     0, 0, 0, 0, 0, 0, 0 >>

cmdmap ==
  << 2^S_CMD_NOP + 2^S_CMD_Q_IFACE + 2^S_CMD_Q_CMDMAP + 2^S_CMD_Q_PGMNAME
     + 2^S_CMD_Q_SERBUF + 2^S_CMD_Q_BUSTYPE + 2^S_CMD_SYNCNOP + 2^S_CMD_O_SPIOP
     + 2^S_CMD_S_BUSTYPE + 2^S_CMD_S_SPI_FREQ + 2^S_CMD_S_PIN_STATE
     + 2^S_CMD_S_SPI_CS,
     0, 0, 0, 0, 0, 0, 0 >>

\* (uint8_t *)cmdmap, sizeof(cmdmap): the 32 bytes of the array in memory
RECURSIVE cmdmap_bytes(_)
cmdmap_bytes(words) ==
  IF words = <<>> THEN <<>>
  ELSE StoreLE32(Head(words)) \o cmdmap_bytes(Tail(words))

(* ------------------------------------------------------------------ *)
(* SPI driver: the achieved baud rate for a requested one              *)
(* ------------------------------------------------------------------ *)
\* spi_set_baudrate's return values for a request f > 0: an achievable
\* rate, at most the requested one
spi_set_baudrate(f) ==
  { f, (f + 1) \div 2 }

(* ------------------------------------------------------------------ *)
(* State                                                               *)
(* ------------------------------------------------------------------ *)
VARIABLES
  pc,           \* position of command_loop / s_cmd_o_spiop
  cmd,          \* the command byte being served
  spi_enabled,  \* uint8_t spi_enabled
  cs_pin,       \* uint cs_pin
  baud,         \* uint baud
  gpio,         \* the pins
  periph,       \* the PL022: initialised or not, and the rate last asked of it
  wlen,         \* s_cmd_o_spiop's locals
  rlen,
  rx,           \* argument bytes read since the command byte
  rxData,       \* number of bulk data bytes read from the host since then
  tx,           \* what has been written to the host since the command byte
  mosi,         \* runs of host data written to the SPI peripheral since then
  miso,         \* number of bytes read from the SPI peripheral since then
  calls,        \* number of spi_set_baudrate calls since then
  pre,          \* the session and the pins when the command byte was read
  flushes,      \* number of tud_cdc_n_write_flush calls since then
  first,        \* no command byte has been read yet
  xf            \* one readbytes_blocking / sendbytes_blocking call on its own

vars ==
  << pc, cmd, spi_enabled, cs_pin, baud, gpio, periph, wlen, rlen,
     rx, rxData, tx, mosi, miso, calls, pre, flushes, first, xf >>

session ==
  << spi_enabled, cs_pin, baud, gpio, periph >>

io ==
  << rx, rxData, tx, mosi, miso, calls >>

\* xf while no transfer is being looked at on its own
XfIdle ==
  [ pc |-> "idle", op |-> "none", n |-> 0, len |-> 0, b |-> 0, moved |-> 0,
    dest |-> <<>>, fifo |-> <<>>, sent |-> 0, wire |-> <<>> ]

\* the state when command_loop is first entered: main has run enable_spi on
\* the pins as reset left them, with the globals at their initialisers
Init ==
  /\ pc = "read_cmd"
  /\ cmd = 0
  /\ spi_enabled = 1
  /\ cs_pin = SPI_CS_0
  /\ baud = DefaultBaud
  /\ gpio = enable_spi_pins([p \in Pins |-> ResetPin], SPI_CS_0)
  /\ periph = [init |-> TRUE, baud |-> DefaultBaud]
  /\ wlen = 0
  /\ rlen = 0
  /\ rx = <<>>
  /\ rxData = 0
  /\ tx = <<>>
  /\ mosi = <<>>
  /\ miso = 0
  /\ calls = 0
  /\ pre = << 1, SPI_CS_0, DefaultBaud,
              enable_spi_pins([p \in Pins |-> ResetPin], SPI_CS_0),
              [init |-> TRUE, baud |-> DefaultBaud] >>
  /\ flushes = 0
  /\ first = TRUE
  /\ xf = XfIdle

(* ------------------------------------------------------------------ *)
(* command_loop                                                        *)
(* ------------------------------------------------------------------ *)
\* uint8_t cmd = readbyte_blocking();
ReadCmd ==
  /\ pc = "read_cmd"
  /\ \E c \in CmdInputs : cmd' = c
  /\ pc' = "dispatch"
  /\ rx' = <<>>
  /\ rxData' = 0
  /\ tx' = <<>>
  /\ mosi' = <<>>
  /\ miso' = 0
  /\ calls' = 0
  /\ pre' = session
  /\ flushes' = 0
  /\ first' = FALSE
  /\ UNCHANGED << session, wlen, rlen, xf >>

\* a case that only answers: the bytes it sends, then break
Answer(c, bytes) ==
  /\ pc = "dispatch"
  /\ cmd = c
  /\ tx' = sendbytes_blocking(tx, bytes)
  /\ pc' = "flush"
  /\ UNCHANGED << cmd, session, wlen, rlen, rx, rxData, mosi, miso, calls, pre, flushes, first, xf >>

CaseNop ==
  Answer(S_CMD_NOP, <<S_ACK>>)

\* mutant of CaseQIface: the version high byte first
CaseQIface_be ==
  Answer(S_CMD_Q_IFACE, <<S_ACK, 0, 1>>)

CaseQIface ==
  Answer(S_CMD_Q_IFACE, <<S_ACK, 1, 0>>)

CaseQCmdmap ==
  Answer(S_CMD_Q_CMDMAP, <<S_ACK>> \o cmdmap_bytes(cmdmap))

CaseQPgmname ==
  Answer(S_CMD_Q_PGMNAME, <<S_ACK>> \o progname)

CaseQSerbuf ==
  Answer(S_CMD_Q_SERBUF, <<S_ACK, 255, 255>>)

CaseQBustype ==
  Answer(S_CMD_Q_BUSTYPE, <<S_ACK, 8>>)

\* mutant of CaseSyncnop: the two bytes in the other order
CaseSyncnop_swapped ==
  Answer(S_CMD_SYNCNOP, <<S_ACK, S_NAK>>)

CaseSyncnop ==
  Answer(S_CMD_SYNCNOP, <<S_NAK, S_ACK>>)

\* the case labels of the switch
Handled ==
  { S_CMD_NOP, S_CMD_Q_IFACE, S_CMD_Q_CMDMAP, S_CMD_Q_PGMNAME, S_CMD_Q_SERBUF,
    S_CMD_Q_BUSTYPE, S_CMD_SYNCNOP, S_CMD_S_BUSTYPE, S_CMD_O_SPIOP,
    S_CMD_S_SPI_FREQ, S_CMD_S_PIN_STATE, S_CMD_S_SPI_CS }

\* mutant of CaseDefault: a switch with no default branch
CaseDefault_silent ==
  /\ pc = "dispatch"
  /\ cmd \notin Handled
  /\ pc' = "flush"
  /\ UNCHANGED << cmd, session, wlen, rlen, io, pre, flushes, first, xf >>

CaseDefault ==
  /\ pc = "dispatch"
  /\ cmd \notin Handled
  /\ tx' = sendbyte_blocking(tx, S_NAK)
  /\ pc' = "flush"
  /\ UNCHANGED << cmd, session, wlen, rlen, rx, rxData, mosi, miso, calls, pre, flushes, first, xf >>

\* mutant of Flush: the loop goes round without the flush
Flush_missing ==
  /\ pc = "flush"
  /\ pc' = "read_cmd"
  /\ UNCHANGED << cmd, session, wlen, rlen, io, pre, flushes, first, xf >>

\* tud_cdc_n_write_flush(CDC_ITF); and back to the top of the loop
Flush ==
  /\ pc = "flush"
  /\ flushes' = flushes + 1
  /\ pc' = "read_cmd"
  /\ UNCHANGED << cmd, session, wlen, rlen, io, pre, first, xf >>

(* ------------------------------------------------------------------ *)
(* Handlers                                                            *)
(* ------------------------------------------------------------------ *)
\* bit 3 of a byte: (b & (1 << 3)) != 0
\* mutant of Bit3: the wrong bit of the mask
Bit3_bit2(b) ==
  (b \div 4) % 2 = 1

Bit3(b) ==
  (b \div 8) % 2 = 1

s_cmd_s_bustype ==
  /\ pc = "dispatch"
  /\ cmd = S_CMD_S_BUSTYPE
  /\ \E b \in BusMaskInputs :
       /\ rx' = Append(rx, b)
       /\ tx' = IF Bit3(b) THEN sendbyte_blocking(tx, S_ACK)
                           ELSE sendbyte_blocking(tx, S_NAK)
  /\ pc' = "flush"
  /\ UNCHANGED << cmd, session, wlen, rlen, rxData, mosi, miso, calls, pre, flushes, first, xf >>

\* mutant of s_cmd_s_spi_freq: no check for the reserved value 0
s_cmd_s_spi_freq_nozero ==
  /\ pc = "dispatch"
  /\ cmd = S_CMD_S_SPI_FREQ
  /\ \E bytes \in FreqInputs :
       LET want_baud == LoadLE(bytes, 0)
       IN /\ rx' = rx \o bytes
          /\ \E a \in spi_set_baudrate(want_baud) :
               /\ baud' = a
               /\ periph' = IF periph.init
                            THEN [periph EXCEPT !.baud = want_baud]
                            ELSE periph
               /\ calls' = calls + 1
               /\ tx' = sendbytes_blocking(sendbyte_blocking(tx, S_ACK),
                                           StoreLE32(a))
  /\ pc' = "flush"
  /\ UNCHANGED << cmd, spi_enabled, cs_pin, gpio, wlen, rlen, rxData, mosi, miso, pre, flushes, first, xf >>

\* mutant of s_cmd_s_spi_freq: the requested value is stored, the achieved
\* one is sent
s_cmd_s_spi_freq_storewant ==
  /\ pc = "dispatch"
  /\ cmd = S_CMD_S_SPI_FREQ
  /\ \E bytes \in FreqInputs :
       LET want_baud == LoadLE(bytes, 0)
       IN /\ rx' = rx \o bytes
          /\ IF want_baud # 0
             THEN \E a \in spi_set_baudrate(want_baud) :
                    /\ baud' = want_baud
                    /\ periph' = IF periph.init
                                 THEN [periph EXCEPT !.baud = want_baud]
                                 ELSE periph
                    /\ calls' = calls + 1
                    /\ tx' = sendbytes_blocking(sendbyte_blocking(tx, S_ACK),
                                                StoreLE32(a))
             ELSE /\ tx' = sendbyte_blocking(tx, S_NAK)
                  /\ UNCHANGED << baud, periph, calls >>
  /\ pc' = "flush"
  /\ UNCHANGED << cmd, spi_enabled, cs_pin, gpio, wlen, rlen, rxData, mosi, miso, pre, flushes, first, xf >>

s_cmd_s_spi_freq ==
  /\ pc = "dispatch"
  /\ cmd = S_CMD_S_SPI_FREQ
  /\ \E bytes \in FreqInputs :
       LET want_baud == LoadLE(bytes, 0)
       IN /\ rx' = rx \o bytes
          /\ IF want_baud # 0
             THEN \E a \in spi_set_baudrate(want_baud) :
                    /\ baud' = a
                    /\ periph' = IF periph.init
                                 THEN [periph EXCEPT !.baud = want_baud]
                                 ELSE periph
                    /\ calls' = calls + 1
                    /\ tx' = sendbytes_blocking(sendbyte_blocking(tx, S_ACK),
                                                StoreLE32(a))
             ELSE /\ tx' = sendbyte_blocking(tx, S_NAK)
                  /\ UNCHANGED << baud, periph, calls >>
  /\ pc' = "flush"
  /\ UNCHANGED << cmd, spi_enabled, cs_pin, gpio, wlen, rlen, rxData, mosi, miso, pre, flushes, first, xf >>

\* enable_spi / disable_spi: the pins, the PL022 and the flag
enable_spi ==
  /\ gpio' = enable_spi_pins(gpio, cs_pin)
  /\ periph' = [init |-> TRUE, baud |-> baud]
  /\ spi_enabled' = 1

disable_spi ==
  /\ gpio' = disable_spi_pins(gpio)
  /\ periph' = [init |-> FALSE, baud |-> 0]
  /\ spi_enabled' = 0

s_cmd_s_pin_state ==
  /\ pc = "dispatch"
  /\ cmd = S_CMD_S_PIN_STATE
  /\ \E b \in PinStateInputs :
       /\ rx' = Append(rx, b)
       /\ IF b # 0 THEN enable_spi ELSE disable_spi
  /\ tx' = sendbyte_blocking(tx, S_ACK)
  /\ pc' = "flush"
  /\ UNCHANGED << cmd, cs_pin, baud, wlen, rlen, rxData, mosi, miso, calls, pre, flushes, first, xf >>

\* mutant of s_cmd_s_spi_cs: the index stored without a range check
s_cmd_s_spi_cs_norange ==
  /\ pc = "dispatch"
  /\ cmd = S_CMD_S_SPI_CS
  /\ \E cs \in CsInputs :
       /\ rx' = Append(rx, cs)
       /\ cs_pin' = cs + SPI_CS_0
  /\ tx' = sendbyte_blocking(tx, S_ACK)
  /\ pc' = "flush"
  /\ UNCHANGED << cmd, spi_enabled, baud, gpio, periph, wlen, rlen, rxData, mosi, miso, calls, pre, flushes, first, xf >>

\* mutant of s_cmd_s_spi_cs: the range check off by one
s_cmd_s_spi_cs_gt ==
  /\ pc = "dispatch"
  /\ cmd = S_CMD_S_SPI_CS
  /\ \E cs \in CsInputs :
       /\ rx' = Append(rx, cs)
       /\ tx' = IF cs > NUM_CS_AVAILABLE THEN sendbyte_blocking(tx, S_NAK) ELSE tx
  /\ pc' = "flush"
  /\ UNCHANGED << cmd, session, wlen, rlen, rxData, mosi, miso, calls, pre, flushes, first, xf >>

\* The return after the range check is not part of the if: it is taken for
\* every index, so the code after it (main.c:231-239) never runs.
s_cmd_s_spi_cs ==
  /\ pc = "dispatch"
  /\ cmd = S_CMD_S_SPI_CS
  /\ \E cs \in CsInputs :
       /\ rx' = Append(rx, cs)
       /\ tx' = IF cs >= NUM_CS_AVAILABLE THEN sendbyte_blocking(tx, S_NAK) ELSE tx
  /\ pc' = "flush"
  /\ UNCHANGED << cmd, session, wlen, rlen, rxData, mosi, miso, calls, pre, flushes, first, xf >>

(* ------------------------------------------------------------------ *)
(* s_cmd_o_spiop                                                       *)
(* ------------------------------------------------------------------ *)
\* readbytes_blocking(&wlen, 3); readbytes_blocking(&rlen, 3);
\* wlen and rlen are uninitialised uint32_t: each read fills the three low
\* bytes and the fourth keeps whatever the stack held.
spiop_lengths ==
  /\ pc = "dispatch"
  /\ cmd = S_CMD_O_SPIOP
  /\ \E bytes \in LenInputs, top \in StackGarbage :
       /\ rx' = rx \o bytes
       /\ wlen' = LoadLE(SubSeq(bytes, 1, 3), top[1])
       /\ rlen' = LoadLE(SubSeq(bytes, 4, 6), top[2])
  /\ pc' = "spiop_select"
  /\ UNCHANGED << cmd, session, rxData, tx, mosi, miso, calls, pre, flushes, first, xf >>

\* cs_select(cs_pin);
spiop_select ==
  /\ pc = "spiop_select"
  /\ gpio' = cs_select(gpio, cs_pin)
  /\ pc' = "spiop_write"
  /\ UNCHANGED << cmd, spi_enabled, cs_pin, baud, periph, wlen, rlen, io, pre, flushes, first, xf >>

\* one turn of while (wlen): cur bytes from the host into buf, the same cur
\* bytes of buf to the peripheral.  buf[0..cur) is filled before it is used
\* and nothing else of buf is read, so buf is local to the turn.
spiop_write ==
  /\ pc = "spiop_write"
  /\ wlen # 0
  /\ LET cur == MIN(wlen, BufSize)
         buf == << rxData, rxData + cur >>
     IN /\ rxData' = rxData + cur
        /\ mosi' = AppendRun(mosi, buf[1], buf[2])
        /\ wlen' = wlen - cur
  /\ UNCHANGED << pc, cmd, session, rlen, rx, tx, miso, calls, pre, flushes, first, xf >>

\* the same turn against a host that sends the data bytes the six argument
\* bytes declare and then waits for the response: readbytes_blocking(buf,
\* cur) returns only if the cur bytes are among them, and otherwise stays in
\* its while (len) loop
spiop_write_supplied ==
  /\ spiop_write
  /\ rxData' <= rx[1] + 256 * rx[2] + 65536 * rx[3]

\* mutant of spiop_ack: the ACK sent without waiting for the write loop to end
spiop_ack_early ==
  /\ pc = "spiop_write"
  /\ tx' = sendbyte_blocking(tx, S_ACK)
  /\ pc' = "spiop_read"
  /\ UNCHANGED << cmd, session, wlen, rlen, rx, rxData, mosi, miso, calls, pre, flushes, first, xf >>

\* sendbyte_blocking(S_ACK); once wlen is 0
spiop_ack ==
  /\ pc = "spiop_write"
  /\ wlen = 0
  /\ tx' = sendbyte_blocking(tx, S_ACK)
  /\ pc' = "spiop_read"
  /\ UNCHANGED << cmd, session, wlen, rlen, rx, rxData, mosi, miso, calls, pre, flushes, first, xf >>

\* one turn of while (rlen): cur bytes from the peripheral into buf, the
\* same cur bytes of buf to the host
spiop_read ==
  /\ pc = "spiop_read"
  /\ rlen # 0
  /\ LET cur == MIN(rlen, BufSize)
         buf == << miso, miso + cur >>
     IN /\ miso' = miso + cur
        /\ tx' = AppendRun(tx, buf[1], buf[2])
        /\ rlen' = rlen - cur
  /\ UNCHANGED << pc, cmd, session, wlen, rx, rxData, mosi, calls, pre, flushes, first, xf >>

\* cs_deselect(cs_pin); and return
spiop_deselect ==
  /\ pc = "spiop_read"
  /\ rlen = 0
  /\ gpio' = cs_deselect(gpio, cs_pin)
  /\ pc' = "flush"
  /\ UNCHANGED << cmd, spi_enabled, cs_pin, baud, periph, wlen, rlen, io, pre, flushes, first, xf >>

(* ------------------------------------------------------------------ *)
(* Specification                                                       *)
(* ------------------------------------------------------------------ *)
Next ==
  \/ ReadCmd
  \/ CaseNop
  \/ CaseQIface
  \/ CaseQCmdmap
  \/ CaseQPgmname
  \/ CaseQSerbuf
  \/ CaseQBustype
  \/ CaseSyncnop
  \/ CaseDefault
  \/ s_cmd_s_bustype
  \/ s_cmd_s_spi_freq
  \/ s_cmd_s_pin_state
  \/ s_cmd_s_spi_cs
  \/ spiop_lengths
  \/ spiop_select
  \/ spiop_write
  \/ spiop_ack
  \/ spiop_read
  \/ spiop_deselect
  \/ Flush

Spec ==
  Init /\ [][Next]_vars

\* command_loop against the host of spiop_write_supplied.  Every other read
\* is of argument bytes the host sends in full, and the host drains what is
\* written, so every other step is as in Next.
LiveNext ==
  \/ ReadCmd
  \/ CaseNop
  \/ CaseQIface
  \/ CaseQCmdmap
  \/ CaseQPgmname
  \/ CaseQSerbuf
  \/ CaseQBustype
  \/ CaseSyncnop
  \/ CaseDefault
  \/ s_cmd_s_bustype
  \/ s_cmd_s_spi_freq
  \/ s_cmd_s_pin_state
  \/ s_cmd_s_spi_cs
  \/ spiop_lengths
  \/ spiop_select
  \/ spiop_write_supplied
  \/ spiop_ack
  \/ spiop_read
  \/ spiop_deselect
  \/ Flush

\* the loop is the only thread of core 0 and tud_task() is polled inside
\* every blocking wait, so a step that can be taken is taken
LiveSpec ==
  Init /\ [][LiveNext]_vars /\ WF_vars(LiveNext)

(* ------------------------------------------------------------------ *)
(* One call of readbytes_blocking or sendbytes_blocking on its own       *)
(* ------------------------------------------------------------------ *)
\* Bytes are named by their position: the host's stream is 1, 2, 3, ... and
\* the buffer to send holds 1..n.  A byte 0 is one that was never written
\* (dest) or one queued before the call (fifo, wire).
\* xf.fifo is the CDC receive FIFO during a read and the transmit FIFO during
\* a write, xf.sent counts the stream bytes that reached the receive FIFO,
\* xf.wire is what left the transmit FIFO, xf.moved counts the bytes the
\* calls of tud_cdc_n_read / tud_cdc_n_write have moved.
main ==
  << pc, cmd, spi_enabled, cs_pin, baud, gpio, periph, wlen, rlen,
     rx, rxData, tx, mosi, miso, calls, pre, flushes, first >>

\* the positions lo+1 .. hi
Span(lo, hi) ==
  [ i \in 1..(hi - lo) |-> lo + i ]

\* the counts a non-blocking read of up to len bytes may return with avail
\* bytes received: it takes that many from the head of the FIFO
tud_cdc_n_read(len, avail) ==
  0..MIN(len, avail)

\* the counts a non-blocking write of up to len bytes may return with free
\* bytes of space: it queues that many from the head of what it is given
tud_cdc_n_write(len, free) ==
  0..MIN(len, free)

\* readbytes_blocking(b, len) is entered with some bytes already received
readbytes_call ==
  /\ xf.pc = "idle"
  /\ \E n \in 0..MaxXfer, k \in 0..FifoSize :
       xf' = [ pc |-> IF n = 0 THEN "done" ELSE "rwait", op |-> "read",
               n |-> n, len |-> n, b |-> 0, moved |-> 0,
               dest |-> [ i \in 1..n |-> 0 ], fifo |-> Span(0, k), sent |-> k,
               wire |-> <<>> ]
  /\ UNCHANGED main

\* one turn of do tud_task(); while (!tud_cdc_n_available(CDC_ITF));
\* tud_task() takes in as many of the host's next bytes as have arrived and fit
wait_for_read ==
  /\ xf.pc = "rwait"
  /\ \E k \in 0..(FifoSize - Len(xf.fifo)) :
       xf' = [ xf EXCEPT !.fifo = @ \o Span(xf.sent, xf.sent + k),
                         !.sent = @ + k,
                         !.pc = IF Len(xf.fifo) + k > 0 THEN "rread" ELSE "rwait" ]
  /\ UNCHANGED main

\* mutant of readbytes_turn: b not advanced
readbytes_turn_nob ==
  /\ xf.pc = "rread"
  /\ \E r \in tud_cdc_n_read(xf.len, Len(xf.fifo)) :
       xf' = [ xf EXCEPT !.dest = [ i \in 1..xf.n |->
                                      IF i >= 1 /\ i <= r THEN xf.fifo[i] ELSE @[i] ],
                          !.fifo = SubSeq(@, r + 1, Len(@)),
                          !.moved = @ + r,
                          !.len = @ - r,
                          !.pc = IF xf.len - r = 0 THEN "done" ELSE "rwait" ]
  /\ UNCHANGED main

\* r = tud_cdc_n_read(CDC_ITF, b, len); b += r; len -= r; and the loop test
readbytes_turn ==
  /\ xf.pc = "rread"
  /\ \E r \in tud_cdc_n_read(xf.len, Len(xf.fifo)) :
       xf' = [ xf EXCEPT !.dest = [ i \in 1..xf.n |->
                                      IF i > xf.b /\ i <= xf.b + r
                                        THEN xf.fifo[i - xf.b] ELSE @[i] ],
                          !.fifo = SubSeq(@, r + 1, Len(@)),
                          !.moved = @ + r,
                          !.b = @ + r,
                          !.len = @ - r,
                          !.pc = IF xf.len - r = 0 THEN "done" ELSE "rwait" ]
  /\ UNCHANGED main

\* sendbytes_blocking(b, len) is entered with some bytes still queued
sendbytes_call ==
  /\ xf.pc = "idle"
  /\ \E n \in 0..MaxXfer, k \in 0..FifoSize :
       xf' = [ pc |-> IF n = 0 THEN "done" ELSE "wwait", op |-> "write",
               n |-> n, len |-> n, b |-> 0, moved |-> 0,
               dest |-> <<>>, fifo |-> [ i \in 1..k |-> 0 ], sent |-> 0,
               wire |-> <<>> ]
  /\ UNCHANGED main

\* one turn of do tud_task(); while (!tud_cdc_n_write_available(CDC_ITF));
\* tud_task() hands as many queued bytes to the host as the host takes
wait_for_write ==
  /\ xf.pc = "wwait"
  /\ \E k \in 0..Len(xf.fifo) :
       xf' = [ xf EXCEPT !.wire = @ \o SubSeq(xf.fifo, 1, k),
                         !.fifo = SubSeq(@, k + 1, Len(@)),
                         !.pc = IF FifoSize - (Len(xf.fifo) - k) > 0
                                  THEN "wwrite" ELSE "wwait" ]
  /\ UNCHANGED main

\* mutant of sendbytes_turn: len taken down by the count asked for
sendbytes_turn_all ==
  /\ xf.pc = "wwrite"
  /\ \E w \in tud_cdc_n_write(xf.len, FifoSize - Len(xf.fifo)) :
       xf' = [ xf EXCEPT !.fifo = @ \o Span(xf.b, xf.b + w),
                          !.moved = @ + w,
                          !.b = @ + w,
                          !.len = 0,
                          !.pc = "done" ]
  /\ UNCHANGED main

\* w = tud_cdc_n_write(CDC_ITF, b, len); b += w; len -= w; and the loop test
sendbytes_turn ==
  /\ xf.pc = "wwrite"
  /\ \E w \in tud_cdc_n_write(xf.len, FifoSize - Len(xf.fifo)) :
       xf' = [ xf EXCEPT !.fifo = @ \o Span(xf.b, xf.b + w),
                          !.moved = @ + w,
                          !.b = @ + w,
                          !.len = @ - w,
                          !.pc = IF xf.len - w = 0 THEN "done" ELSE "wwait" ]
  /\ UNCHANGED main

\* the call returns
xf_return ==
  /\ xf.pc = "done"
  /\ xf' = XfIdle
  /\ UNCHANGED main

XferNext ==
  \/ readbytes_call
  \/ wait_for_read
  \/ readbytes_turn
  \/ sendbytes_call
  \/ wait_for_write
  \/ sendbytes_turn
  \/ xf_return

XferSpec ==
  Init /\ [][XferNext]_vars

TypeOK ==
  /\ pc \in { "read_cmd", "dispatch", "spiop_select", "spiop_write", "spiop_read", "flush" }
  /\ spi_enabled \in { 0, 1 }
  /\ cs_pin \in CsPins
  /\ baud \in Nat
  /\ wlen \in Nat
  /\ rlen \in Nat

(* ------------------------------------------------------------------ *)
(* Vocabulary of the claims                                            *)
(* ------------------------------------------------------------------ *)
\* the handler of the current command has returned; nothing more is written
\* for this command
Done ==
  pc = "flush"

Ack ==
  << "b", S_ACK >>

Nak ==
  << "b", S_NAK >>

\* number of ACK / NAK bytes in an output stream
StatusBytes(t) ==
  Cardinality({ i \in 1..Len(t) : t[i] = Ack \/ t[i] = Nak })

\* a stream holding exactly the first n bulk bytes, in order
Run(n) ==
  IF n = 0 THEN <<>> ELSE << << "dat", 0, n >> >>

\* a byte array as a stream
RECURSIVE Bytes(_)
Bytes(bytes) ==
  IF bytes = <<>> THEN <<>> ELSE << << "b", Head(bytes) >> >> \o Bytes(Tail(bytes))

\* the lengths the host declared in the six argument bytes
DeclaredW ==
  rx[1] + 256 * rx[2] + 65536 * rx[3]

DeclaredR ==
  rx[4] + 256 * rx[5] + 65536 * rx[6]

\* the output latch of the active chip-select is low and, with the bus
\* enabled, the pin is an output: the line is driven low
CsLow ==
  /\ gpio[cs_pin].out = 0
  /\ spi_enabled = 1 => gpio[cs_pin].dir = "out"

(* ------------------------------------------------------------------ *)
(* Claims                                                              *)
(* ------------------------------------------------------------------ *)

\* C1: every command answers with exactly one status byte (ACK or NAK)
\* between its command byte and the next one; Sync alone answers with two.
C1_OneStatusByte ==
  Done => StatusBytes(tx) = (IF cmd = S_CMD_SYNCNOP THEN 2 ELSE 1)

\* C2: set-chip-select with an index i in [0, NUM_CS_AVAILABLE) answers with
\* exactly one ACK and the recorded chip-select becomes line i, bus enabled
\* or not.
C2_ValidCsAcked ==
  (Done /\ cmd = S_CMD_S_SPI_CS /\ rx[1] < NUM_CS_AVAILABLE)
    => (tx = << Ack >> /\ cs_pin = SPI_CS_0 + rx[1])

\* C3: set-chip-select with an index outside [0, NUM_CS_AVAILABLE) answers
\* with exactly one NAK and leaves the recorded chip-select, the enabled
\* flag, the stored frequency, the peripheral and every pin as they were.
C3_InvalidCsNaked ==
  (Done /\ cmd = S_CMD_S_SPI_CS /\ rx[1] >= NUM_CS_AVAILABLE)
    => (tx = << Nak >> /\ Len(rx) = 1 /\ session = pre)

C3_Witness ==
  /\ Done
  /\ cmd = S_CMD_S_SPI_CS
  /\ rx = << NUM_CS_AVAILABLE >>
  /\ tx = << Nak >>

\* C4: an SPI operation declaring write length w and read length r reads
\* exactly w data bytes from the host after its six length bytes and hands
\* them to the peripheral in order, and sends the host one ACK followed by
\* exactly r peripheral bytes in order, whatever w and r are relative to the
\* chunk size.
C4_ChunkTransparent ==
  (Done /\ cmd = S_CMD_O_SPIOP)
    => /\ Len(rx) = 6
       /\ rxData = DeclaredW
       /\ mosi = Run(DeclaredW)
       /\ miso = DeclaredR
       /\ tx = << Ack >> \o Run(DeclaredR)

\* C5: in an SPI operation the chip-select goes low before anything is
\* transferred, every peripheral write comes before the ACK, every
\* peripheral read after it, and the chip-select goes high only once the
\* last byte has been read and sent: each step a command takes that touches
\* the peripheral, the ACK or the chip-select respects that order (the step
\* that reads the next command byte starts a new record and is exempt).
C5_Step ==
  pc # "read_cmd" =>
    /\ (mosi' # mosi \/ miso' # miso) => (CsLow /\ CsLow')
    /\ mosi' # mosi => (tx = <<>> /\ tx' = tx /\ miso = 0 /\ miso' = miso)
    /\ miso' # miso => (tx # <<>> /\ tx[1] = Ack /\ wlen = 0 /\ mosi' = mosi)
    /\ (cmd = S_CMD_O_SPIOP /\ tx = <<>> /\ tx' # tx)
         => (tx' = << Ack >> /\ wlen = 0 /\ miso = 0 /\ CsLow /\ CsLow')
    /\ (cmd = S_CMD_O_SPIOP /\ gpio[cs_pin].out = 1 /\ gpio'[cs_pin].out = 0)
         => (rxData = 0 /\ mosi = <<>> /\ miso = 0 /\ tx = <<>>)
    /\ (cmd = S_CMD_O_SPIOP /\ gpio[cs_pin].out = 0 /\ gpio'[cs_pin].out = 1)
         => (wlen = 0 /\ rlen = 0 /\ tx # <<>> /\ tx[1] = Ack /\ Done')
    /\ (cmd = S_CMD_O_SPIOP /\ Done) => gpio[cs_pin].out = 1

C5_Sequential ==
  [][C5_Step]_vars

C5_Witness ==
  /\ Done
  /\ cmd = S_CMD_O_SPIOP
  /\ spi_enabled = 1
  /\ mosi = Run(BufSize + 1)
  /\ tx = << Ack >> \o Run(BufSize)
  /\ gpio[cs_pin].dir = "out"
  /\ gpio[cs_pin].out = 1

\* C6: the write and read lengths that drive the transfer loops are exactly
\* w0 + 256*w1 + 65536*w2 and r0 + 256*r1 + 65536*r2, determined by the six
\* argument bytes alone.
C6_LengthsFromBytes ==
  pc = "spiop_select" => (wlen = DeclaredW /\ rlen = DeclaredR)

\* C7: set-SPI-frequency with requested value 0 answers with one NAK and
\* nothing else, never calls the baud-rate setter and leaves the stored
\* frequency (and the rest of the session) unchanged.
C7_ZeroFreqNaked ==
  (Done /\ cmd = S_CMD_S_SPI_FREQ /\ LoadLE(rx, 0) = 0)
    => (tx = << Nak >> /\ calls = 0 /\ baud = pre[3] /\ session = pre)

C7_Witness ==
  /\ Done
  /\ cmd = S_CMD_S_SPI_FREQ
  /\ rx = << 0, 0, 0, 0 >>
  /\ tx = << Nak >>
  /\ baud # DefaultBaud

\* C8: set-SPI-frequency with requested value f > 0 answers ACK followed by
\* the four little-endian bytes of an achieved frequency a, 0 < a <= f, and
\* the stored frequency is then a, bus enabled or not.
C8_FreqAchieved ==
  (Done /\ cmd = S_CMD_S_SPI_FREQ /\ LoadLE(rx, 0) > 0)
    => /\ 0 < baud
       /\ baud <= LoadLE(rx, 0)
       /\ tx = << Ack >> \o Bytes(StoreLE32(baud))
       /\ LoadLE(<< tx[2][2], tx[3][2], tx[4][2], tx[5][2] >>, 0) = baud
       /\ calls = 1
       /\ spi_enabled = pre[1]

C8_Witness ==
  /\ Done
  /\ cmd = S_CMD_S_SPI_FREQ
  /\ LoadLE(rx, 0) > 0
  /\ spi_enabled = 0
  /\ baud < LoadLE(rx, 0)
  /\ tx[1] = Ack

\* C9: a command byte with no case in the dispatcher answers with exactly
\* one NAK, reads no further input and leaves the session unchanged.
C9_UnknownNaked ==
  (Done /\ cmd \notin Handled)
    => (tx = << Nak >> /\ rx = <<>> /\ rxData = 0 /\ session = pre)

C9_Witness ==
  /\ Done
  /\ cmd = 6
  /\ tx = << Nak >>
  /\ spi_enabled = 0

\* C10: Sync answers with exactly the two bytes NAK, ACK, in that order, in
\* every session state, and changes no session state.
C10_SyncNakAck ==
  (Done /\ cmd = S_CMD_SYNCNOP)
    => (tx = << Nak, Ack >> /\ rx = <<>> /\ rxData = 0 /\ session = pre)

C10_Witness ==
  /\ Done
  /\ cmd = S_CMD_SYNCNOP
  /\ tx = << Nak, Ack >>
  /\ spi_enabled = 0
  /\ baud # DefaultBaud

\* a pin that is an input, pulled up
PulledUpInput(p) ==
  gpio[p].dir = "in" /\ gpio[p].pu /\ ~gpio[p].pd

\* a pin that is an input with no pull
NeutralInput(p) ==
  gpio[p].dir = "in" /\ ~gpio[p].pu /\ ~gpio[p].pd

\* a pin that is an output driving the given level
Driven(p, level) ==
  gpio[p].dir = "out" /\ gpio[p].out = level

\* C11: after set-pin-state with a nonzero byte the bus is enabled, the
\* chip-select at the recorded index is an output held high, every other
\* candidate chip-select is an input with pull-up, the SPI peripheral is
\* initialised at the stored frequency and exactly one ACK has been sent.
C11_Enabled ==
  (Done /\ cmd = S_CMD_S_PIN_STATE /\ rx[1] # 0)
    => /\ spi_enabled = 1
       /\ cs_pin \in CsPins
       /\ Driven(cs_pin, 1)
       /\ \A p \in CsPins \ { cs_pin } : PulledUpInput(p)
       /\ periph = [init |-> TRUE, baud |-> baud]
       /\ baud = pre[3]
       /\ tx = << Ack >>
       /\ Len(rx) = 1

C11_Witness ==
  /\ Done
  /\ cmd = S_CMD_S_PIN_STATE
  /\ rx = << 255 >>
  /\ pre[1] = 0
  /\ spi_enabled = 1
  /\ baud # DefaultBaud
  /\ tx = << Ack >>

\* C12: after set-pin-state with byte 0 the bus is disabled, every
\* chip-select line and the three SPI signal lines are inputs with no pull,
\* the SPI peripheral is deinitialised, the recorded chip-select and the
\* stored frequency are unchanged and exactly one ACK has been sent; doing
\* it again changes nothing (the state reached is a fixed point of disable).
C12_Disabled ==
  (Done /\ cmd = S_CMD_S_PIN_STATE /\ rx[1] = 0)
    => /\ spi_enabled = 0
       /\ \A p \in Pins : NeutralInput(p)
       /\ ~periph.init
       /\ cs_pin = pre[2]
       /\ baud = pre[3]
       /\ tx = << Ack >>
       /\ Len(rx) = 1
       /\ disable_spi_pins(gpio) = gpio
       /\ pre[1] = 0 => (gpio = disable_spi_pins(pre[4]) /\ periph = pre[5])

C12_Witness ==
  /\ Done
  /\ cmd = S_CMD_S_PIN_STATE
  /\ rx = << 0 >>
  /\ pre[1] = 0
  /\ pre[4][SPI_CS_0].out = 1
  /\ gpio[SPI_CS_0].out = 0
  /\ tx = << Ack >>

\* the SPI bit (value 8) is set in a mask byte
HasSpiBit(b) ==
  b % 16 >= 8

\* C13: set-bus-type reads exactly one mask byte and answers with exactly
\* one byte, ACK if and only if the SPI bit (0x08) is set in the mask, NAK
\* otherwise, and changes nothing of the session.
C13_BusType ==
  (Done /\ cmd = S_CMD_S_BUSTYPE)
    => /\ Len(rx) = 1
       /\ rxData = 0
       /\ tx = (IF HasSpiBit(rx[1]) THEN << Ack >> ELSE << Nak >>)
       /\ session = pre

C13_Witness ==
  /\ Done
  /\ cmd = S_CMD_S_BUSTYPE
  /\ rx = << 247 >>
  /\ tx = << Nak >>
  /\ spi_enabled = 0

\* bit c of the capability bitmap as sent: bit c mod 8 of byte c div 8 of
\* the 32 bytes after the ACK
SentBit(c) ==
  (tx[2 + (c \div 8)][2] \div (2 ^ (c % 8))) % 2

\* C14: bit c of the bitmap sent by query-command-map is set if and only if
\* the dispatcher has a case for c, for every byte value c.
C14_CmdmapMatches ==
  (Done /\ cmd = S_CMD_Q_CMDMAP)
    => /\ Len(tx) = 33
       /\ tx[1] = Ack
       /\ \A c \in 0..255 : (SentBit(c) = 1) <=> (c \in Handled)

C14_Witness ==
  /\ Done
  /\ cmd = S_CMD_Q_CMDMAP
  /\ Len(tx) = 33
  /\ SentBit(S_CMD_S_SPI_CS) = 1
  /\ SentBit(6) = 0

\* C15: query-program-name, query-interface-version, query-serial-buffer-size
\* and query-bus-type each answer ACK and a fixed payload ("pico-serprog"
\* padded with zeros to 16 bytes; 1, 0; 255, 255; 8), whatever the session
\* state, and change none of it.
C15_FixedAnswers ==
  (Done /\ cmd \in { S_CMD_Q_PGMNAME, S_CMD_Q_IFACE, S_CMD_Q_SERBUF, S_CMD_Q_BUSTYPE })
    => /\ tx = << Ack >> \o Bytes(
               CASE cmd = S_CMD_Q_PGMNAME ->
                      << 112, 105, 99, 111, 45, 115, 101, 114, 112, 114, 111, 103,
                         0, 0, 0, 0 >>
                 [] cmd = S_CMD_Q_IFACE -> << 1, 0 >>
                 [] cmd = S_CMD_Q_SERBUF -> << 255, 255 >>
                 [] cmd = S_CMD_Q_BUSTYPE -> << 8 >>)
       /\ rx = <<>>
       /\ rxData = 0
       /\ session = pre

C15_Witness ==
  /\ Done
  /\ cmd = S_CMD_Q_IFACE
  /\ tx = << Ack, << "b", 1 >>, << "b", 0 >> >>
  /\ spi_enabled = 0
  /\ baud # DefaultBaud

\* C16: a command byte is read only after the whole response of the previous
\* command has been written and one flush issued: between two command-byte
\* reads there is exactly one flush, nothing is written after it, and it
\* comes once the handler has returned.
C16_Step ==
  /\ (pc = "read_cmd" /\ pc' # pc) => (first \/ flushes = 1)
  /\ flushes' > flushes => (flushes = 0 /\ Done /\ tx' = tx)
  /\ (flushes > 0 /\ pc' # "dispatch") => tx' = tx
  /\ pc' = "read_cmd" => flushes' = (IF first' THEN 0 ELSE 1)

C16_OneFlush ==
  [][C16_Step]_vars

C16_Witness ==
  /\ pc = "read_cmd"
  /\ flushes = 1
  /\ cmd = S_CMD_O_SPIOP
  /\ tx = << Ack >> \o Run(3)

\* C17: the recorded chip-select is always one of the NUM_CS_AVAILABLE
\* candidate pins, bus enabled or not.
C17_CsIndexValid ==
  /\ cs_pin - SPI_CS_0 >= 0
  /\ cs_pin - SPI_CS_0 < NUM_CS_AVAILABLE

C17_Witness ==
  /\ Done
  /\ cmd = S_CMD_S_SPI_CS
  /\ rx = << 255 >>
  /\ spi_enabled = 0
  /\ cs_pin - SPI_CS_0 = 0

\* the candidate chip-select lines that are outputs at low level
DrivenLow ==
  { p \in CsPins : Driven(p, 0) }

\* C19: at most one candidate chip-select line is driven low, one is driven
\* low only while an SPI operation is executing, and none is while the
\* dispatcher waits for a command byte.
C19_OneCsLow ==
  /\ Cardinality(DrivenLow) <= 1
  /\ DrivenLow # {} => (cmd = S_CMD_O_SPIOP /\ pc \in { "spiop_write", "spiop_read" })
  /\ pc = "read_cmd" => DrivenLow = {}

C19_Witness ==
  /\ pc = "spiop_read"
  /\ miso > BufSize
  /\ DrivenLow = { cs_pin }
  /\ pre[1] = 1

\* C18: with a host that delivers the argument bytes and exactly the declared
\* write-length data bytes and drains the output, every command that has been
\* read runs to completion and the loop comes back to reading a command byte.
C18_Completes ==
  (pc = "dispatch") ~> (pc = "read_cmd")

\* C20: readbytes_blocking(b, n) returns only when exactly n bytes have been
\* taken from the channel and stand in b in stream order, the bytes after
\* them still in the channel; sendbytes_blocking(b, n) returns only when
\* exactly the n bytes of b have been queued in order behind what was queued
\* before; each call of the channel asks for the remaining count, never more.
C20_ExactTransfer ==
  /\ xf.pc # "idle" => (xf.len >= 0 /\ xf.len = xf.n - xf.moved)
  /\ (xf.pc = "done" /\ xf.op = "read")
       => /\ xf.moved = xf.n
          /\ xf.dest = Span(0, xf.n)
          /\ xf.fifo = Span(xf.n, xf.sent)
  /\ (xf.pc = "done" /\ xf.op = "write")
       => /\ xf.moved = xf.n
          /\ \E k \in 0..FifoSize :
               xf.wire \o xf.fifo = [ i \in 1..k |-> 0 ] \o Span(0, xf.n)

\* a read of MaxXfer bytes that took more than one turn and left a byte of
\* the stream in the channel
C20_Witness ==
  /\ xf.pc = "done"
  /\ xf.op = "read"
  /\ xf.n = MaxXfer
  /\ xf.dest = Span(0, MaxXfer)
  /\ xf.sent > MaxXfer

\* a write of MaxXfer bytes through a FIFO that was full at the call
C20_WitnessWrite ==
  /\ xf.pc = "done"
  /\ xf.op = "write"
  /\ xf.n = MaxXfer
  /\ Len(xf.wire) > FifoSize
  /\ xf.wire[1] = 0

====
